---- MODULE Spec2Model ----
(***************************************************************************)
(* Service registry of platform-coordination-service.                      *)
(*                                                                         *)
(* The store is the PostgreSQL database behind src/core/database.py: the   *)
(* table `services` (unique on name, host, port) and the table             *)
(* `service_events` (foreign key to services, ON DELETE CASCADE).  Each    *)
(* request context owns one AsyncSession; an `await` on the session is a   *)
(* point where other request contexts run, so every handler is cut into    *)
(* one action per awaited store call.  The engine runs at the default      *)
(* isolation level (READ COMMITTED): a flush followed by its commit is one *)
(* atomic step, a plain SELECT reads the last committed row, and           *)
(* SELECT ... FOR UPDATE holds the row until the transaction commits.      *)
(*                                                                         *)
(* A session keeps one object per primary key (identity map).  A SELECT    *)
(* that returns a row whose object is already in the session does not      *)
(* overwrite the attributes loaded before; a flush writes exactly the      *)
(* columns whose value differs from the value that was loaded.             *)
(***************************************************************************)
EXTENDS Integers, Sequences, FiniteSets, TLC

\* ---------------------------------------------------------------- bounds
\* clock readings (datetime.now) taken in one behaviour of
MaxTime == 3          \* Spec and RepoSpec
MaxHealthTime == 4    \* HealthSpec
MaxSeqTime == 4       \* SeqSpec
MaxStaleTime == 4     \* StaleSpec

\* the request contexts that run concurrently
Contexts == {1, 2}

\* ---------------------------------------------------------------- inputs
\* the service names as callers write them
RawNames == {"svc-a", "SVC-A", "svc-b"}

\* str.lower() on the names in use
lower(v) == IF v = "SVC-A" THEN "svc-a" ELSE v

\* ServiceRegistration.validate_name: the field value the registration carries
validate_name(v) == lower(v)

\* the names registrations carry
Names == {validate_name(v) : v \in RawNames}
Hosts == {"h1"}
Ports == {8080}

ServiceType == {"api", "worker"}

ServiceStatus ==
    {"healthy", "degraded", "unhealthy", "unknown", "starting", "stopping", "stopped"}

NoEndpoint == "None"

\* the type, metadata and health_check_endpoint a registration carries
Payloads ==
    { [type |-> "api",
       metadata |-> [version |-> "1.0.0", tags |-> [team |-> "platform"]],
       health_check_endpoint |-> "/health"],
      [type |-> "worker",
       metadata |-> [version |-> "2.0.0", tags |-> [team |-> "edge"]],
       health_check_endpoint |-> NoEndpoint] }

\* the failure counter value from which a service is unhealthy
UnhealthyThreshold == 3

\* Service.version default
InitialVersion == 1

VARIABLES
    services,   \* table services: a set of rows
    events,     \* table service_events, in creation order
    issued,     \* number of primary keys generated so far (uuid4 never repeats)
    now,        \* the last reading of the clock
    pc,         \* pc[c]: where request context c stands
    req,        \* req[c]: the request context c serves
    loaded,     \* loaded[c]: the Service object as the session loaded it (<<>> or <<row>>)
    obj,        \* obj[c]: the same object with the attributes set since (<<>> or <<row>>)
    via,        \* via[c]: the branch of register_service the context is in
    ret,        \* the response the last step sent (request, status code, body), if any
    running,    \* BackgroundMetricsUpdater._running
    task,       \* BackgroundMetricsUpdater._task: an index into tasks, 0 for None
    tasks,      \* the loop tasks created so far, in creation order
    stopping,   \* the task a stop() call in progress awaits, 0 when none is
    logged      \* the last message the background metrics module logged

registry_vars == <<services, events, issued, now, pc, req, loaded, obj, via, ret>>

updater_vars == <<running, task, tasks, stopping, logged>>

vars ==
    <<services, events, issued, now, pc, req, loaded, obj, via, ret,
      running, task, tasks, stopping, logged>>

\* ---------------------------------------------------------------- store
RowsById(id) == {s \in services : s.id = id}

RowsByCoordinates(co) ==
    {s \in services : s.name = co.name /\ s.host = co.host /\ s.port = co.port}

\* result.scalar_one_or_none()
OneOrNone(rows) == IF rows = {} THEN <<>> ELSE <<CHOOSE s \in rows : TRUE>>

get(id) == OneOrNone(RowsById(id))

get_by_name_host_port(co) == OneOrNone(RowsByCoordinates(co))

\* mutant: the table has no uniqueness constraint
no_unique_constraint(co) == FALSE

\* UniqueConstraint("name", "host", "port"): would inserting co violate it
unique_service_endpoint(co) == RowsByCoordinates(co) # {}

\* mutant: the read of update_health_status takes no row lock
NeverLocked(id) == FALSE

\* the row is held by SELECT ... FOR UPDATE of an open transaction
Locked(id) ==
    \E c \in Contexts : pc[c] = "health_commit" /\ loaded[c] # <<>> /\ loaded[c][1].id = id

NoRequest == [op |-> "none"]

\* a response: the request it answers, the status code, and as body the Service
\* objects the repository handed to the route (what _convert_to_service_info is given)
Response(request, code, body) == [req |-> request, code |-> code, body |-> body]

NoResponse == Response(NoRequest, 0, <<>>)

\* the step sends no response
Silent == ret' = NoResponse

\* a new request is served by the first free request context
Accepts(c) == pc[c] = "idle" /\ \A d \in Contexts : d < c => pc[d] # "idle"

Init ==
    /\ services = {}
    /\ events = <<>>
    /\ issued = 0
    /\ now = 0
    /\ pc = [c \in Contexts |-> "idle"]
    /\ req = [c \in Contexts |-> NoRequest]
    /\ loaded = [c \in Contexts |-> <<>>]
    /\ obj = [c \in Contexts |-> <<>>]
    /\ via = [c \in Contexts |-> "none"]
    /\ ret = NoResponse
    /\ running = FALSE
    /\ task = 0
    /\ tasks = <<>>
    /\ stopping = 0
    /\ logged = "none"

\* ---------------------------------------------------------------- session
\* setattr(service, key, value) for every keyword argument
SetAttrs(o, kwargs) ==
    [f \in DOMAIN o |-> IF f \in DOMAIN kwargs THEN kwargs[f] ELSE o[f]]

\* The UPDATE a flush emits for an object loaded as l and now holding o, applied to
\* the committed row: the columns whose value changed since the load are written.
Flush(row, l, o) ==
    [f \in DOMAIN row |-> IF o[f] # l[f] THEN o[f] ELSE row[f]]

StatusChangeEvent(id, old, new) ==
    [service_id |-> id, event_type |-> "status_change",
     old_status |-> old, new_status |-> new]

RegisteredEvent(id) ==
    [service_id |-> id, event_type |-> "service_registered",
     old_status |-> "", new_status |-> ""]

\* mutant: removing a service leaves its events behind
CascadeKeep(evs, ids) == evs

\* ON DELETE CASCADE / cascade="all, delete-orphan"
CascadeDelete(evs, ids) == SelectSeq(evs, LAMBDA e : e.service_id \notin ids)

\* the response to `request` is sent and the session of context c is closed
Respond(c, request, code, body) ==
    /\ pc' = [pc EXCEPT ![c] = "idle"]
    /\ req' = [req EXCEPT ![c] = NoRequest]
    /\ ret' = Response(request, code, body)
    /\ loaded' = [loaded EXCEPT ![c] = <<>>]
    /\ obj' = [obj EXCEPT ![c] = <<>>]
    /\ via' = [via EXCEPT ![c] = "none"]

Finish(c, code, body) == Respond(c, req[c], code, body)

\* ---------------------------------------------------------------- register
\* the bodies of POST /register
Registrations ==
    { [name |-> n, host |-> h, port |-> p, type |-> x.type, metadata |-> x.metadata,
       health_check_endpoint |-> x.health_check_endpoint] :
      n \in Names, h \in Hosts, p \in Ports, x \in Payloads }

\* the keyword arguments register_service passes to repo.update
RegistrationKwargs(r) ==
    [type |-> r.type, service_metadata |-> r.metadata,
     health_check_endpoint |-> r.health_check_endpoint, status |-> "unknown"]

\* mutant: a new row starts at version 0
NewServiceVersionZero(id, r, t) ==
    [id |-> id, name |-> r.name, host |-> r.host, port |-> r.port,
     type |-> r.type, status |-> "unknown",
     health_check_endpoint |-> r.health_check_endpoint,
     health_check_failures |-> 0, last_health_check_at |-> 0,
     service_metadata |-> r.metadata,
     registered_at |-> t, last_seen_at |-> t, version |-> 0]

\* mutant: every new row takes the first id
NewServiceFirstId(id, r, t) ==
    [id |-> 1, name |-> r.name, host |-> r.host, port |-> r.port,
     type |-> r.type, status |-> "unknown",
     health_check_endpoint |-> r.health_check_endpoint,
     health_check_failures |-> 0, last_health_check_at |-> 0,
     service_metadata |-> r.metadata,
     registered_at |-> t, last_seen_at |-> t, version |-> InitialVersion]

\* Service(**kwargs) with the column defaults, as the INSERT stores it at time t
NewService(id, r, t) ==
    [id |-> id, name |-> r.name, host |-> r.host, port |-> r.port,
     type |-> r.type, status |-> "unknown",
     health_check_endpoint |-> r.health_check_endpoint,
     health_check_failures |-> 0, last_health_check_at |-> 0,
     service_metadata |-> r.metadata,
     registered_at |-> t, last_seen_at |-> t, version |-> InitialVersion]

\* register_service up to its first store call: the lookup by coordinates
register_service(c) ==
    /\ Accepts(c)
    /\ \E r \in Registrations :
        LET existing == get_by_name_host_port(r) IN
        /\ req' = [req EXCEPT ![c] = [op |-> "register", registration |-> r]]
        /\ loaded' = [loaded EXCEPT ![c] = existing]
        /\ obj' = [obj EXCEPT ![c] = existing]
        /\ via' = [via EXCEPT ![c] = IF existing # <<>> THEN "existing" ELSE "new"]
        /\ pc' = [pc EXCEPT ![c] = IF existing # <<>> THEN "update_get" ELSE "create"]
    /\ UNCHANGED <<services, events, issued, now>> /\ Silent

\* ServiceRepository.create: the INSERT and its commit
create(c) ==
    /\ pc[c] = "create"
    /\ LET r == req[c].registration IN
       IF unique_service_endpoint(r)
       THEN \* IntegrityError: rollback, ConflictError, caught by register_service
            /\ pc' = [pc EXCEPT ![c] = "relookup"]
            /\ UNCHANGED <<services, events, issued, now, req, loaded, obj, via>> /\ Silent
       ELSE /\ LET row == NewService(issued + 1, r, now + 1) IN
               /\ services' = services \cup {row}
               /\ loaded' = [loaded EXCEPT ![c] = <<row>>]
               /\ obj' = [obj EXCEPT ![c] = <<row>>]
            /\ issued' = issued + 1
            /\ now' = now + 1
            /\ pc' = [pc EXCEPT ![c] = "create_refresh"]
            /\ UNCHANGED <<events, req, via>> /\ Silent

\* ServiceRepository.create: session.refresh(service)
create_refresh(c) ==
    /\ pc[c] = "create_refresh"
    /\ LET row == get(loaded[c][1].id) IN
       IF row = <<>>
       THEN \* the row is gone: refresh raises, the request fails
            Finish(c, 500, <<>>)
       ELSE /\ loaded' = [loaded EXCEPT ![c] = row]
            /\ obj' = [obj EXCEPT ![c] = row]
            /\ pc' = [pc EXCEPT ![c] = "create_event"]
            /\ UNCHANGED <<req, via>> /\ Silent
    /\ UNCHANGED <<services, events, issued, now>>

\* ServiceRepository.create: the service_registered event, in its own transaction
create_event(c) ==
    /\ pc[c] = "create_event"
    /\ LET id == loaded[c][1].id IN
       IF RowsById(id) # {}
       THEN /\ events' = Append(events, RegisteredEvent(id))
            /\ Finish(c, 201, obj[c])
       ELSE \* foreign key violation: caught and logged; the failed commit rolled the
            \* session back and expired the object, so reading service.id raises
            /\ UNCHANGED events
            /\ Finish(c, 500, <<>>)
    /\ UNCHANGED <<services, issued, now>>

\* mutant: register_service surfaces the conflict without looking again
relookup_gives_up(c) ==
    /\ pc[c] = "relookup"
    /\ Finish(c, 409, <<>>)
    /\ UNCHANGED <<services, events, issued, now>>

\* register_service after ConflictError: the second lookup by coordinates
relookup(c) ==
    /\ pc[c] = "relookup"
    /\ LET existing == get_by_name_host_port(req[c].registration) IN
       IF existing # <<>>
       THEN /\ loaded' = [loaded EXCEPT ![c] = existing]
            /\ obj' = [obj EXCEPT ![c] = existing]
            /\ via' = [via EXCEPT ![c] = "race"]
            /\ pc' = [pc EXCEPT ![c] = "update_get"]
            /\ UNCHANGED <<req>> /\ Silent
       ELSE Finish(c, 409, <<>>)
    /\ UNCHANGED <<services, events, issued, now>>

\* ---------------------------------------------------------------- update
\* the keyword arguments of the update a context runs, without "version"
Kwargs(c) ==
    IF req[c].op = "register" THEN RegistrationKwargs(req[c].registration)
    ELSE req[c].kwargs

\* kwargs.pop("version", None): <<>> or <<expected version>>
ExpectedVersion(c) ==
    IF req[c].op = "register" THEN <<>> ELSE req[c].version

\* mutant: update stamps registered_at as well
UpdateObjectStampsRegistered(service, kwargs, t) ==
    [SetAttrs(service, kwargs) EXCEPT !.last_seen_at = t, !.registered_at = t,
                                      !.version = service.version + 1]

\* ServiceRepository.update from the version check to the line before the commit:
\* the attribute changes of the object `service`, t the clock reading
UpdateObject(service, kwargs, t) ==
    [SetAttrs(service, kwargs) EXCEPT !.last_seen_at = t,
                                      !.version = service.version + 1]

\* what the caller makes of update returning None
NotUpdated(branch) ==
    CASE branch = "existing" -> 500     \* HTTPException(500, "Failed to update service")
      [] branch = "race" -> 409         \* HTTPException(409, "Service registration conflict")
      [] OTHER -> 404                   \* a direct caller: not found

\* `expected_version is not None and service.version != expected_version`
VersionConflict(expected_version, service) ==
    expected_version # <<>> /\ service.version # expected_version[1]

\* ServiceRepository.update: self.get(id), the version check, the attribute changes.
\* The SELECT decides whether the row exists; the object is the one the session
\* already holds for the primary key, when it holds one.
update_get(c) ==
    /\ pc[c] = "update_get"
    /\ LET id == IF req[c].op = "register" THEN loaded[c][1].id ELSE req[c].id
           found == get(id)
           service == IF loaded[c] # <<>> THEN loaded[c] ELSE found
       IN
       IF found = <<>>
       THEN \* update returns None
            /\ Finish(c, NotUpdated(via[c]), <<>>)
            /\ UNCHANGED now
       ELSE IF VersionConflict(ExpectedVersion(c), service[1])
       THEN \* ConflictError("Service was modified by another process")
            /\ Finish(c, 409, <<>>)
            /\ UNCHANGED now
       ELSE /\ now' = now + 1
            /\ loaded' = [loaded EXCEPT ![c] = service]
            /\ obj' = [obj EXCEPT ![c] = <<UpdateObject(service[1], Kwargs(c), now + 1)>>]
            /\ pc' = [pc EXCEPT ![c] = "update_commit"]
            /\ UNCHANGED <<req, via>> /\ Silent
    /\ UNCHANGED <<services, events, issued>>

\* `if new_status and old_status != new_status`
UpdateStatusChanged(kwargs, old_status) ==
    "status" \in DOMAIN kwargs /\ old_status # kwargs.status

\* ServiceRepository.update: session.commit() (the UPDATE, the event INSERT, COMMIT)
update_commit(c) ==
    /\ pc[c] = "update_commit"
    /\ LET id == loaded[c][1].id IN
       /\ ~Locked(id)
       /\ IF RowsById(id) = {}
          THEN \* the UPDATE matches no row: StaleDataError, the request fails
               /\ Finish(c, 500, <<>>)
               /\ UNCHANGED <<services, events>>
          ELSE LET row == CHOOSE s \in RowsById(id) : TRUE IN
               /\ services' = (services \ {row}) \cup {Flush(row, loaded[c][1], obj[c][1])}
               /\ events' = IF UpdateStatusChanged(Kwargs(c), loaded[c][1].status)
                            THEN Append(events, StatusChangeEvent(
                                     id, loaded[c][1].status, Kwargs(c).status))
                            ELSE events
               /\ pc' = [pc EXCEPT ![c] = "update_refresh"]
               /\ UNCHANGED <<req, loaded, obj, via>> /\ Silent
    /\ UNCHANGED <<issued, now>>

\* ServiceRepository.update: session.refresh(service), then the response
update_refresh(c) ==
    /\ pc[c] = "update_refresh"
    /\ LET row == get(loaded[c][1].id) IN
       IF row = <<>>
       THEN Finish(c, 500, <<>>)
       ELSE Finish(c, IF req[c].op = "register" THEN 201 ELSE 200, row)
    /\ UNCHANGED <<services, events, issued, now>>

\* the keyword arguments a caller of ServiceRepository.update passes
UpdateKwargs == { [status |-> "stopping"] }

\* the expected versions a caller of ServiceRepository.update passes
UpdateVersions == { <<>>, <<InitialVersion>> }

\* a caller of ServiceRepository.update with a fresh session
update(c) ==
    /\ Accepts(c)
    /\ \E id \in 1..issued, kwargs \in UpdateKwargs, version \in UpdateVersions :
        req' = [req EXCEPT ![c] =
                   [op |-> "update", id |-> id, kwargs |-> kwargs, version |-> version]]
    /\ pc' = [pc EXCEPT ![c] = "update_get"]
    /\ via' = [via EXCEPT ![c] = "direct"]
    /\ UNCHANGED <<services, events, issued, now, loaded, obj>> /\ Silent

\* ---------------------------------------------------------------- health
\* mutant: the threshold is compared with > instead of >=
HealthTransitionLate(service, healthy) ==
    IF healthy
    THEN [service EXCEPT !.status = "healthy", !.health_check_failures = 0]
    ELSE LET failures == service.health_check_failures + 1 IN
         [service EXCEPT !.health_check_failures = failures,
                         !.status = IF failures > UnhealthyThreshold
                                    THEN "unhealthy" ELSE "degraded"]

\* the status and failure counter update_health_status computes from the object
HealthTransition(service, healthy) ==
    IF healthy
    THEN [service EXCEPT !.status = "healthy", !.health_check_failures = 0]
    ELSE LET failures == service.health_check_failures + 1 IN
         [service EXCEPT !.health_check_failures = failures,
                         !.status = IF failures >= UnhealthyThreshold
                                    THEN "unhealthy" ELSE "degraded"]

\* update_health_status from the locked read to the line before the commit
HealthObject(service, healthy, t) ==
    [HealthTransition(service, healthy) EXCEPT !.last_health_check_at = t,
                                               !.last_seen_at = t,
                                               !.version = service.version + 1]

\* the health route: self.get(id, for_update=True) and the attribute changes
update_health_status(c) ==
    /\ Accepts(c)
    /\ \E id \in 1..issued, healthy \in BOOLEAN :
        LET found == get(id)
            request == [op |-> "health", id |-> id, healthy |-> healthy]
        IN
        /\ ~Locked(id)
        /\ IF found = <<>>
           THEN /\ Respond(c, request, 404, <<>>)
                /\ UNCHANGED now
           ELSE /\ now' = now + 1
                /\ req' = [req EXCEPT ![c] = request]
                /\ loaded' = [loaded EXCEPT ![c] = found]
                /\ obj' = [obj EXCEPT ![c] = <<HealthObject(found[1], healthy, now + 1)>>]
                /\ pc' = [pc EXCEPT ![c] = "health_commit"]
                /\ UNCHANGED <<via>> /\ Silent
    /\ UNCHANGED <<services, events, issued>>

\* update_health_status: session.commit(); the row lock is released
health_commit(c) ==
    /\ pc[c] = "health_commit"
    /\ LET old == loaded[c][1]
           new == obj[c][1]
           row == CHOOSE s \in RowsById(old.id) : TRUE
       IN
       /\ services' = (services \ {row}) \cup {Flush(row, old, new)}
       /\ events' = IF old.status # new.status
                    THEN Append(events, StatusChangeEvent(old.id, old.status, new.status))
                    ELSE events
    /\ pc' = [pc EXCEPT ![c] = "health_refresh"]
    /\ UNCHANGED <<issued, now, req, loaded, obj, via>> /\ Silent

\* update_health_status: session.refresh(service), then the response
health_refresh(c) ==
    /\ pc[c] = "health_refresh"
    /\ LET row == get(loaded[c][1].id) IN
       IF row = <<>> THEN Finish(c, 500, <<>>) ELSE Finish(c, 200, row)
    /\ UNCHANGED <<services, events, issued, now>>

\* ---------------------------------------------------------------- delete
\* unregister_service: repo.get(service_id)
unregister_service(c) ==
    /\ Accepts(c)
    /\ \E id \in 1..issued :
        LET found == get(id)
            request == [op |-> "unregister", id |-> id]
        IN
        IF found = <<>>
        THEN Respond(c, request, 404, <<>>)
        ELSE /\ req' = [req EXCEPT ![c] = request]
             /\ loaded' = [loaded EXCEPT ![c] = found]
             /\ obj' = [obj EXCEPT ![c] = found]
             /\ pc' = [pc EXCEPT ![c] = "delete_get"]
             /\ UNCHANGED <<via>> /\ Silent
    /\ UNCHANGED <<services, events, issued, now>>

\* ServiceRepository.delete: self.get(id)
delete_get(c) ==
    /\ pc[c] = "delete_get"
    /\ IF get(loaded[c][1].id) = <<>>
       THEN \* delete returns False: HTTPException(500, "Failed to delete service")
            Finish(c, 500, <<>>)
       ELSE /\ pc' = [pc EXCEPT ![c] = "delete_commit"]
            /\ UNCHANGED <<req, loaded, obj, via>> /\ Silent
    /\ UNCHANGED <<services, events, issued, now>>

UnregisteredEvent(id) ==
    [service_id |-> id, event_type |-> "service_unregistered",
     old_status |-> "", new_status |-> ""]

\* mutant: delete marks the service stopped and keeps the record
delete_soft(c) ==
    /\ pc[c] = "delete_commit"
    /\ LET id == loaded[c][1].id IN
       /\ ~Locked(id)
       /\ IF RowsById(id) = {}
          THEN /\ Finish(c, 500, <<>>)
               /\ UNCHANGED <<services, events>>
          ELSE /\ services' = (services \ RowsById(id)) \cup
                                 {[s EXCEPT !.status = "stopped"] : s \in RowsById(id)}
               /\ events' = Append(events, UnregisteredEvent(id))
               /\ Finish(c, 204, <<>>)
    /\ UNCHANGED <<issued, now>>

\* ServiceRepository.delete: the service_unregistered event, session.delete(service)
\* and session.commit(): the event is inserted and removed with the service's events
delete(c) ==
    /\ pc[c] = "delete_commit"
    /\ LET id == loaded[c][1].id IN
       /\ ~Locked(id)
       /\ IF RowsById(id) = {}
          THEN \* the event's foreign key has no row to refer to: the request fails
               /\ Finish(c, 500, <<>>)
               /\ UNCHANGED <<services, events>>
          ELSE /\ services' = services \ RowsById(id)
               /\ events' = CascadeDelete(Append(events, UnregisteredEvent(id)), {id})
               /\ Finish(c, 204, <<>>)
    /\ UNCHANGED <<issued, now>>

\* ---------------------------------------------------------------- stale cleanup
\* the values of stale_after_seconds a caller passes, in clock readings
StaleAfter == {1, 2}

\* mutant: the cutoff itself counts as stale
StaleServicesInclusive(cutoff_time) == {s \in services : s.last_seen_at <= cutoff_time}

\* the rows DELETE ... WHERE last_seen_at < cutoff removes
StaleServices(cutoff_time) == {s \in services : s.last_seen_at < cutoff_time}

\* ServiceRepository.cleanup_stale_services: one DELETE ... RETURNING and its commit
cleanup_stale_services(c) ==
    /\ Accepts(c)
    /\ \E stale_after_seconds \in StaleAfter :
        LET deleted == StaleServices((now + 1) - stale_after_seconds)
            deleted_ids == {s.id : s \in deleted}
        IN
        /\ \A id \in deleted_ids : ~Locked(id)
        /\ services' = services \ deleted
        /\ events' = CascadeDelete(events, deleted_ids)
        /\ ret' = Response([op |-> "cleanup", stale_after_seconds |-> stale_after_seconds],
                           200, <<Cardinality(deleted_ids)>>)
    /\ now' = now + 1
    /\ UNCHANGED <<issued, pc, req, loaded, obj, via>>

\* ---------------------------------------------------------------- queries
\* the collation order of the names
NameRank(name) == IF name = "svc-a" THEN 1 ELSE 2

RECURSIVE OrderByName(_)
\* ORDER BY name
OrderByName(rows) ==
    IF rows = {} THEN <<>>
    ELSE LET first == CHOOSE s \in rows :
                          \A o \in rows : NameRank(s.name) <= NameRank(o.name)
         IN <<first>> \o OrderByName(rows \ {first})

RECURSIVE OrderByLastSeenDesc(_)
\* ORDER BY last_seen_at DESC
OrderByLastSeenDesc(rows) ==
    IF rows = {} THEN <<>>
    ELSE LET first == CHOOSE s \in rows : \A o \in rows : s.last_seen_at >= o.last_seen_at
         IN <<first>> \o OrderByLastSeenDesc(rows \ {first})

\* mutant: the status argument is ignored, only unhealthy services are left out
find_by_name_any_status(name, status, exclude_unhealthy) ==
    OrderByLastSeenDesc(
        {s \in services : s.name = name /\ (exclude_unhealthy => s.status # "unhealthy")})

\* ServiceRepository.find_by_name; status is <<>> (None) or <<a status>>
find_by_name(name, status, exclude_unhealthy) ==
    OrderByLastSeenDesc(
        {s \in services :
            /\ s.name = name
            /\ IF status # <<>> THEN s.status = status[1]
               ELSE exclude_unhealthy => s.status # "unhealthy"})

\* get_service: entirely one SELECT; the ids asked for are the issued ones and one
\* that was never issued
get_service(c) ==
    /\ Accepts(c)
    /\ \E id \in 1..(issued + 1) :
        LET found == get(id) IN
        ret' = Response([op |-> "get", id |-> id],
                        IF found = <<>> THEN 404 ELSE 200, found)
    /\ UNCHANGED <<services, events, issued, now, pc, req, loaded, obj, via>>

\* the statuses a caller of discover asks for; "healthy" is the default
DiscoverStatuses == {"healthy", "unknown"}

\* discover_services: entirely one SELECT
discover_services(c) ==
    /\ Accepts(c)
    /\ \E service_name \in RawNames, status \in DiscoverStatuses :
        ret' = Response([op |-> "discover", service_name |-> service_name,
                         status |-> status],
                        200, find_by_name(service_name, <<status>>, TRUE))
    /\ UNCHANGED <<services, events, issued, now, pc, req, loaded, obj, via>>

\* ServiceRepository.list; each filter is <<>> (None) or <<a value>>.  `if tag_key
\* and tag_value`: the tag filter applies when both are given and neither is "".
list(type, status, tag_key, tag_value) ==
    OrderByName(
        {s \in services :
            /\ type # <<>> => s.type = type[1]
            /\ status # <<>> => s.status = status[1]
            /\ (/\ tag_key # <<>> /\ tag_value # <<>>
                /\ tag_key[1] # "" /\ tag_value[1] # "") =>
                 /\ tag_key[1] \in DOMAIN s.service_metadata.tags
                 /\ s.service_metadata.tags[tag_key[1]] = tag_value[1]})

\* The tag query parameter, written as the sequence of its pieces, "=" being a
\* piece of its own; <<>> is no parameter (or the empty string: `if tag` treats both
\* alike).  Every run of pieces between "=" holds at most one piece.
TagParams ==
    { <<>>, <<"team", "=", "platform">>, <<"team", "=">>, <<"team">> }

\* the text of a run of at most one piece
Text(pieces) == IF pieces = <<>> THEN "" ELSE pieces[1]

\* tag.split("=", 1) raises ValueError on unpacking: the tag holds no "="
InvalidTag(tag) == \A i \in 1..Len(tag) : tag[i] # "="

\* tag_key, tag_value = tag.split("=", 1)
split(tag) ==
    LET i == CHOOSE k \in 1..Len(tag) :
                 tag[k] = "=" /\ \A m \in 1..(k - 1) : tag[m] # "="
    IN <<Text(SubSeq(tag, 1, i - 1)), Text(SubSeq(tag, i + 1, Len(tag)))>>

\* the query parameters a caller of list_services passes
ListQueries ==
    { [type |-> t, status |-> <<>>, tag |-> g] :
        t \in {<<>>, <<"api">>}, g \in TagParams }
    \cup { [type |-> <<>>, status |-> <<"unknown">>, tag |-> <<>>] }

\* list_services: the tag is parsed, then entirely one SELECT
list_services(c) ==
    /\ Accepts(c)
    /\ \E q \in ListQueries :
        LET request == [op |-> "list", query |-> q] IN
        IF q.tag # <<>> /\ InvalidTag(q.tag)
        THEN \* HTTPException(400, "Invalid tag format. Use key=value")
             ret' = Response(request, 400, <<>>)
        ELSE LET tag_key == IF q.tag = <<>> THEN <<>> ELSE <<split(q.tag)[1]>>
                 tag_value == IF q.tag = <<>> THEN <<>> ELSE <<split(q.tag)[2]>>
             IN ret' = Response(request, 200, list(q.type, q.status, tag_key, tag_value))
    /\ UNCHANGED <<services, events, issued, now, pc, req, loaded, obj, via>>

\* ---------------------------------------------------------------- background metrics
\* BackgroundMetricsUpdater of src/core/background_metrics.py.  start() and the
\* part of stop() before its await run without interruption; the loop task is
\* suspended at the store call of a tick or at one of the two sleeps, and when
\* cancel() was called on it, its next step is the CancelledError raised at
\* that await.  The gauges the tick sets belong to the metrics collector and
\* are no part of this state.

\* the loop tasks start() creates in one behaviour
MaxTasks == 3

\* how a call of _update_active_services_metrics ends: the gauges are set, the
\* store call fails and the call logs the failure itself, or an exception
\* leaves the call
TickOutcomes == {"updated", "failed", "raised"}

\* asyncio.create_task(self._update_loop()): a task that has not run yet
NewTask == [at |-> "created", cancel |-> FALSE]

\* how a loop task ends: _update_loop returned, or the CancelledError left it
Done == {"returned", "cancelled"}

\* the indices of the tasks created so far
LoopTasks == 1..Len(tasks)

\* BackgroundMetricsUpdater.start
start ==
    /\ stopping' = stopping
    /\ IF running
       THEN /\ logged' = "Background metrics updater is already running"
            /\ UNCHANGED <<running, task, tasks>>
       ELSE /\ Len(tasks) < MaxTasks
            /\ running' = TRUE
            /\ tasks' = Append(tasks, NewTask)
            /\ task' = Len(tasks) + 1
            /\ logged' = "Background metrics updater started"

\* mutant: cancel() leaves the task as it is
no_cancel(t) == t

\* Task.cancel(): a request the task meets at its next step; none for a task
\* that is done
cancel(t) == IF t.at \in Done THEN t ELSE [t EXCEPT !.cancel = TRUE]

\* BackgroundMetricsUpdater.stop up to `await self._task`; without a task the
\* call is over at once
stop ==
    /\ stopping = 0
    /\ running' = FALSE
    /\ task' = task
    /\ IF task = 0
       THEN /\ logged' = "Background metrics updater stopped"
            /\ UNCHANGED <<tasks, stopping>>
       ELSE /\ tasks' = [tasks EXCEPT ![task] = cancel(@)]
            /\ stopping' = task
            /\ logged' = logged

\* BackgroundMetricsUpdater.stop from `await self._task` on: the task is done,
\* its CancelledError is passed over
stop_await ==
    /\ stopping # 0
    /\ tasks[stopping].at \in Done
    /\ stopping' = 0
    /\ logged' = "Background metrics updater stopped"
    /\ UNCHANGED <<running, task, tasks>>

\* _update_loop at `while self._running`: the task runs for the first time or
\* one of its sleeps is over
_update_loop(i) ==
    /\ tasks[i].at \in {"created", "sleep", "error_sleep"}
    /\ ~tasks[i].cancel
    /\ tasks' = [tasks EXCEPT ![i].at = IF running THEN "tick" ELSE "returned"]
    /\ UNCHANGED <<running, task, stopping, logged>>

\* mutant: an exception that leaves the tick ends the loop
stops_after_tick(outcome) == IF outcome = "raised" THEN "returned" ELSE "sleep"

\* where _update_loop stands once the tick has ended: the sleep of line 55, or
\* the sleep of the exception handler
after_tick(outcome) == IF outcome = "raised" THEN "error_sleep" ELSE "sleep"

\* what the tick or the loop logs
tick_log(outcome) ==
    CASE outcome = "updated" -> "Updated active services metrics"
      [] outcome = "failed" -> "Failed to update active services metrics"
      [] outcome = "raised" -> "Error updating background metrics"

\* _update_active_services_metrics and the loop's handling of how it ends
_update_active_services_metrics(i) ==
    /\ tasks[i].at = "tick"
    /\ ~tasks[i].cancel
    /\ \E outcome \in TickOutcomes :
          /\ tasks' = [tasks EXCEPT ![i].at = after_tick(outcome)]
          /\ logged' = tick_log(outcome)
    /\ UNCHANGED <<running, task, stopping>>

\* CancelledError at the await the task is suspended at: a task that never ran
\* is cancelled, in the tick and in the sleep after it the loop breaks, in the
\* sleep of the exception handler the error leaves the loop
CancelledError(i) ==
    /\ tasks[i].at \notin Done
    /\ tasks[i].cancel
    /\ tasks' = [tasks EXCEPT ![i].at =
                    IF tasks[i].at \in {"tick", "sleep"} THEN "returned" ELSE "cancelled"]
    /\ UNCHANGED <<running, task, stopping, logged>>

\* the steps of a loop task
LoopStep(i) ==
    \/ _update_loop(i)
    \/ _update_active_services_metrics(i)
    \/ CancelledError(i)

\* ---------------------------------------------------------------- system
\* the steps of POST /register
RegisterStep(c) ==
    \/ register_service(c)
    \/ create(c)
    \/ create_refresh(c)
    \/ create_event(c)
    \/ relookup(c)
    \/ update_get(c)
    \/ update_commit(c)
    \/ update_refresh(c)

\* the steps of POST /{service_id}/health
HealthStep(c) ==
    \/ update_health_status(c)
    \/ health_commit(c)
    \/ health_refresh(c)

\* the steps of DELETE /{service_id}
UnregisterStep(c) ==
    \/ unregister_service(c)
    \/ delete_get(c)
    \/ delete(c)

\* the queries
QueryStep(c) ==
    \/ discover_services(c)
    \/ list_services(c)
    \/ get_service(c)

\* the steps of a direct caller of ServiceRepository.update
UpdateStep(c) ==
    \/ update(c)
    \/ update_get(c)
    \/ update_commit(c)
    \/ update_refresh(c)

\* every registration in flight is for the name n
OnlyName(n) ==
    \A c \in Contexts : req[c].op = "register" => req[c].registration.name = n

\* the registration context c has just begun is for coordinates nobody registered
\* or is registering
FreshCoordinates(c) ==
    LET r == req'[c].registration IN
    /\ RowsByCoordinates(r) = {}
    /\ \A d \in Contexts \ {c} :
          req[d].op = "register" =>
              \/ req[d].registration.name # r.name
              \/ req[d].registration.host # r.host
              \/ req[d].registration.port # r.port

\* The registry as it is served: the routes and the stale cleanup, run by
\* concurrent request contexts, all registrations for one triple.
Next ==
    \E c \in Contexts :
        /\ \/ RegisterStep(c)
           \/ HealthStep(c)
           \/ UnregisterStep(c)
           \/ cleanup_stale_services(c)
        /\ now' <= MaxTime
        /\ OnlyName("svc-a")'
        /\ UNCHANGED updater_vars

Spec == Init /\ [][Next]_vars

\* Concurrent callers of the repository: registrations, health signals and direct
\* updates carrying an expected version, on one triple.
RepoNext ==
    \E c \in Contexts :
        /\ \/ RegisterStep(c)
           \/ HealthStep(c)
           \/ UpdateStep(c)
        /\ now' <= MaxTime
        /\ OnlyName("svc-a")'
        /\ UNCHANGED updater_vars

RepoSpec == Init /\ [][RepoNext]_vars

\* Concurrent registrations and health signals on one triple; nothing is removed.
HealthNext ==
    \E c \in Contexts :
        /\ \/ RegisterStep(c)
           \/ HealthStep(c)
        /\ now' <= MaxHealthTime
        /\ OnlyName("svc-a")'
        /\ UNCHANGED updater_vars

HealthSpec == Init /\ [][HealthNext]_vars

\* HealthSpec where a transaction that holds a row lock goes on to its commit: the
\* commit awaits nothing but the store.
HealthFairSpec ==
    HealthSpec /\ \A c \in Contexts : WF_vars(health_commit(c) /\ UNCHANGED updater_vars)

\* Concurrent registrations, health signals, deletes and lookups by id on one triple.
LookupNext ==
    \E c \in Contexts :
        /\ \/ RegisterStep(c)
           \/ HealthStep(c)
           \/ UnregisterStep(c)
           \/ get_service(c)
        /\ now' <= MaxTime
        /\ OnlyName("svc-a")'
        /\ UNCHANGED updater_vars

LookupSpec == Init /\ [][LookupNext]_vars

\* Concurrent first registrations of pairwise distinct triples, and listings.
FleetNext ==
    \E c \in Contexts :
        /\ \/ register_service(c) /\ FreshCoordinates(c)
           \/ create(c)
           \/ create_refresh(c)
           \/ create_event(c)
           \/ list_services(c)
        /\ UNCHANGED updater_vars

FleetSpec == Init /\ [][FleetNext]_vars

\* One request at a time: every route, the stale cleanup and the queries.
SeqNext ==
    /\ \/ RegisterStep(1)
       \/ HealthStep(1)
       \/ UnregisterStep(1)
       \/ cleanup_stale_services(1)
       \/ QueryStep(1)
    /\ now' <= MaxSeqTime
    /\ UNCHANGED updater_vars

SeqSpec == Init /\ [][SeqNext]_vars

\* Concurrent registrations and health signals on one triple, and the stale
\* cleanup.
StaleNext ==
    \E c \in Contexts :
        /\ \/ RegisterStep(c)
           \/ HealthStep(c)
           \/ cleanup_stale_services(c)
        /\ now' <= MaxStaleTime
        /\ OnlyName("svc-a")'
        /\ UNCHANGED updater_vars

StaleSpec == Init /\ [][StaleNext]_vars

\* The background metrics updater: start and stop calls in any order, and the
\* loop tasks.
TaskNext ==
    /\ \/ start
       \/ stop
       \/ stop_await
       \/ \E i \in LoopTasks : LoopStep(i)
    /\ UNCHANGED registry_vars

\* the event loop runs every task that is ready, and a sleep ends
TaskSpec ==
    /\ Init
    /\ [][TaskNext]_vars
    /\ WF_vars(stop_await /\ UNCHANGED registry_vars)
    /\ \A i \in 1..MaxTasks :
          WF_vars(i \in LoopTasks /\ LoopStep(i) /\ UNCHANGED registry_vars)

\* ---------------------------------------------------------------- properties
\* the committed row with primary key id
Row(id) == CHOOSE s \in RowsById(id) : TRUE

SameCoordinates(s, t) == s.name = t.name /\ s.host = t.host /\ s.port = t.port

\* the query of a list request carries no filter
NoFilter(q) == q.type = <<>> /\ q.status = <<>> /\ q.tag = <<>>

\* context c commits the UPDATE of ServiceRepository.update in this step
UpdateCommits(c) ==
    pc[c] = "update_commit" /\ pc'[c] = "update_refresh"

\* context c commits the UPDATE of update_health_status in this step
HealthCommits(c) ==
    pc[c] = "health_commit" /\ pc'[c] = "health_refresh"

\* C1: in every reachable state, under any interleaving of registrations, health
\* updates, deletes and stale cleanups, at most one live service record exists for
\* each (name, host, port) triple.
C1_UniqueTriple ==
    \A s, t \in services : SameCoordinates(s, t) => s = t

\* a registration ran into the uniqueness constraint while the record is live
C1_Witness ==
    \E c \in Contexts : pc[c] = "relookup" /\ RowsByCoordinates(req[c].registration) # {}

\* C2: when register calls with identical coordinates run concurrently on a triple
\* that had no record, and nothing is removed, exactly one call creates the record
\* and every other call updates that record: every call answers 201 with the id of
\* the one record of the triple, and one primary key and one service_registered
\* event exist for it.
C2_ConcurrentRegister ==
    /\ issued <= 1
    /\ Cardinality({i \in 1..Len(events) : events[i].event_type = "service_registered"}) <= 1
    /\ ret.req.op = "register" =>
         /\ ret.code = 201
         /\ Len(ret.body) = 1
         /\ \A s \in RowsByCoordinates(ret.req.registration) : s.id = ret.body[1].id
         /\ SameCoordinates(ret.body[1], ret.req.registration)

\* a registration lost the race for the INSERT and has updated the winner's record
C2_Witness ==
    \E c \in Contexts : via[c] = "race" /\ pc[c] = "update_refresh"

\* C3: every successful write of update or update_health_status raises the stored
\* version by exactly one, so that no two of them yield the same version and k
\* writes starting from version v leave version v + k.
C3_VersionCountsWrites ==
    [][\A c \in Contexts :
          (UpdateCommits(c) \/ HealthCommits(c)) =>
              Row(loaded[c][1].id)'.version = Row(loaded[c][1].id).version + 1]_vars

\* C4: an update whose expected version differs from the stored version never
\* applies: the version the call reads equals the expected one, and when its commit
\* finds another stored version, no row and no event changes.
C4_StaleVersionRejected ==
    [][\A c \in Contexts :
          /\ (pc[c] = "update_get" /\ pc'[c] = "update_commit" /\ ExpectedVersion(c) # <<>>) =>
                Row(req[c].id).version = ExpectedVersion(c)[1]
          /\ (/\ pc[c] = "update_commit" /\ pc'[c] # "update_commit"
              /\ ExpectedVersion(c) # <<>>
              /\ RowsById(loaded[c][1].id) # {}
              /\ Row(loaded[c][1].id).version # ExpectedVersion(c)[1]) =>
                (services' = services /\ events' = events)]_vars

\* C5: a registration of a triple that has a record updates that record: the id and
\* registered_at stay, type, metadata and health_check_endpoint are the ones
\* supplied, the status is unknown, last_seen_at is strictly later than before, and
\* the response is 201 with that record.
C5_ReRegistration ==
    [][\A c \in Contexts :
          /\ (UpdateCommits(c) /\ req[c].op = "register") =>
                LET old == Row(loaded[c][1].id)
                    new == Row(loaded[c][1].id)'
                    r == req[c].registration
                IN /\ services' = (services \ {old}) \cup {new}
                   /\ new.id = old.id
                   /\ SameCoordinates(new, old)
                   /\ new.registered_at = old.registered_at
                   /\ new.type = r.type
                   /\ new.service_metadata = r.metadata
                   /\ new.health_check_endpoint = r.health_check_endpoint
                   /\ new.status = "unknown"
                   /\ new.last_seen_at > old.last_seen_at
          /\ (pc[c] = "update_refresh" /\ pc'[c] = "idle" /\ req[c].op = "register") =>
                /\ ret'.code = 201
                /\ ret'.body = <<Row(loaded[c][1].id)>>
                /\ ret'.body[1].id = loaded[c][1].id
                /\ ret'.body[1].registered_at = loaded[c][1].registered_at]_vars

\* C6: from a service whose status is unknown, after a first registration or after a
\* re-registration, unhealthy signals yield degraded with 1 failure, degraded with 2
\* and unhealthy with 3; a healthy signal yields healthy with 0 failures.
C6_HysteresisFromUnknown ==
    [][\A c \in Contexts :
          HealthCommits(c) =>
              LET old == Row(loaded[c][1].id)
                  new == Row(loaded[c][1].id)'
              IN IF req[c].healthy
                 THEN new.status = "healthy" /\ new.health_check_failures = 0
                 ELSE /\ old.status = "unknown" =>
                            new.status = "degraded" /\ new.health_check_failures = 1
                      /\ (old.status = "degraded" /\ old.health_check_failures = 1) =>
                            new.status = "degraded" /\ new.health_check_failures = 2
                      /\ (old.status = "degraded" /\ old.health_check_failures = 2) =>
                            new.status = "unhealthy" /\ new.health_check_failures = 3]_vars

\* C7: update_health_status on a service with failure counter n and any status
\* stores, on a healthy signal, status healthy and counter 0, and on an unhealthy
\* signal, counter n + 1 and status unhealthy if n + 1 >= 3, degraded otherwise.
C7_HealthTransition ==
    [][\A c \in Contexts :
          HealthCommits(c) =>
              LET old == Row(loaded[c][1].id)
                  new == Row(loaded[c][1].id)'
              IN IF req[c].healthy
                 THEN new.status = "healthy" /\ new.health_check_failures = 0
                 ELSE /\ new.health_check_failures = old.health_check_failures + 1
                      /\ new.status = IF old.health_check_failures + 1 >= 3
                                      THEN "unhealthy" ELSE "degraded"]_vars

\* a third consecutive unhealthy signal has been committed
C7_Witness ==
    \E c \in Contexts :
        /\ pc[c] = "health_refresh" /\ ~req[c].healthy
        /\ loaded[c][1].status = "degraded"
        /\ Row(loaded[c][1].id).status = "unhealthy"
        /\ Row(loaded[c][1].id).health_check_failures = 3

\* C8: discover answers 200 with a list, possibly empty, and every service in it
\* has the requested name and exactly the requested status; with the default status
\* healthy no unhealthy service is in it.
C8_DiscoverExact ==
    ret.req.op = "discover" =>
        /\ ret.code = 200
        /\ \A i \in 1..Len(ret.body) :
              /\ ret.body[i].name = ret.req.service_name
              /\ ret.body[i].status = ret.req.status
              /\ ret.req.status = "healthy" => ret.body[i].status # "unhealthy"
              /\ ret.body[i] \in services

\* discover with the default status answered the empty list while an unhealthy
\* service of that name is registered
C8_Witness ==
    /\ ret.req.op = "discover" /\ ret.req.status = "healthy"
    /\ ret.body = <<>>
    /\ \E s \in services : s.name = ret.req.service_name /\ s.status = "unhealthy"

\* C9: every event's service_id is the id of a live service: removing a service, by
\* delete or by the stale cleanup, removes its events, and no write adds an event
\* for a removed service.
C9_NoOrphanEvents ==
    \A i \in 1..Len(events) : RowsById(events[i].service_id) # {}

\* a delete has just removed a service whose creator has yet to write its
\* service_registered event
C9_Witness ==
    /\ ret.req.op = "unregister" /\ ret.code = 204
    /\ \E c \in Contexts : pc[c] = "create_event" /\ loaded[c][1].id = ret.req.id

\* C10: concurrent registrations of pairwise distinct triples all answer 201, and a
\* listing taken when they are done holds exactly one record for each, all with
\* version 1.
C10_DistinctRegistrations ==
    /\ ret.req.op = "register" => ret.code = 201 /\ ret.body[1].version = 1
    /\ (/\ ret.req.op = "list" /\ NoFilter(ret.req.query)
        /\ \A c \in Contexts : pc[c] = "idle") =>
          /\ Len(ret.body) = issued
          /\ {ret.body[i] : i \in 1..Len(ret.body)} = services
          /\ \A i \in 1..Len(ret.body) : ret.body[i].version = 1
          /\ \A i, j \in 1..Len(ret.body) :
                SameCoordinates(ret.body[i], ret.body[j]) => i = j

\* the listing after two concurrent registrations holds two records
C10_Witness ==
    /\ ret.req.op = "list" /\ NoFilter(ret.req.query) /\ Len(ret.body) = 2
    /\ \A c \in Contexts : pc[c] = "idle"

\* C11: concurrent update_health_status calls on one existing service are serialized
\* by the row lock: at most one of them is between its locked read and its commit,
\* each commit applies its signal to the row as committed at that moment and raises
\* the stored version by exactly 1, each call answers 200, and a call that holds
\* the lock releases it.
C11_HealthSerialized ==
    /\ [][\A c \in Contexts :
            /\ HealthCommits(c) =>
                 LET old == Row(loaded[c][1].id)
                     new == Row(loaded[c][1].id)'
                 IN /\ old = loaded[c][1]
                    /\ \A d \in Contexts \ {c} :
                          ~(pc[d] = "health_commit" /\ loaded[d][1].id = old.id)
                    /\ new.version = old.version + 1
                    /\ new.status = HealthTransition(old, req[c].healthy).status
                    /\ new.health_check_failures =
                          HealthTransition(old, req[c].healthy).health_check_failures
            /\ (pc[c] = "health_refresh" /\ pc'[c] = "idle") =>
                 ret'.code = 200 /\ ret'.body = <<Row(loaded[c][1].id)>>]_vars
    /\ \A c \in Contexts : (pc[c] = "health_commit") ~> (pc[c] # "health_commit")

\* a health update has committed on top of another health update's commit while
\* that one has not answered yet
C11_Witness ==
    \E c, d \in Contexts :
        /\ c # d
        /\ pc[c] = "health_refresh" /\ pc[d] = "health_refresh"
        /\ loaded[c][1].id = loaded[d][1].id
        /\ loaded[d][1].version = loaded[c][1].version + 1
        /\ Row(loaded[c][1].id).version = loaded[c][1].version + 2

\* C12: a newly created service has version 1; an update or update_health_status
\* that commits with no other writer's commit since its read raises the stored
\* version by exactly 1; and the stored version of a live service never decreases.
C12_VersionMonotonic ==
    [][/\ \A c \in Contexts :
            /\ (pc[c] = "create" /\ pc'[c] = "create_refresh") =>
                  \A s \in services' \ services : s.version = 1
            /\ ((UpdateCommits(c) \/ HealthCommits(c))
                  /\ Row(loaded[c][1].id) = loaded[c][1]) =>
                  Row(loaded[c][1].id)'.version = Row(loaded[c][1].id).version + 1
       /\ \A s \in services : \A t \in services' :
            s.id = t.id => t.version >= s.version]_vars

\* C13: create on a triple that has a record, whether the record was there at the
\* caller's lookup or was inserted by a concurrent caller since, raises
\* ConflictError and changes nothing: no record and no event is added and the
\* existing record is untouched.
C13_CreateConflict ==
    [][\A c \in Contexts :
          (/\ pc[c] = "create" /\ pc'[c] # "create"
           /\ RowsByCoordinates(req[c].registration) # {}) =>
              /\ pc'[c] = "relookup"
              /\ services' = services
              /\ events' = events
              /\ issued' = issued]_vars

\* create has raised ConflictError on a record a concurrent caller inserted after
\* this caller's lookup and has not yet finished creating
C13_Witness ==
    \E c, d \in Contexts :
        /\ pc[c] = "relookup" /\ via[c] = "new"
        /\ pc[d] \in {"create_refresh", "create_event"}
        /\ SameCoordinates(loaded[d][1], req[c].registration)
        /\ loaded[d][1] \in services

\* C14: the commit of an update or update_health_status call appends a status_change
\* event carrying the old and the new status exactly when it changes the stored
\* status of the service; a call that leaves the status unchanged appends nothing.
C14_StatusChangeEvent ==
    [][\A c \in Contexts :
          (UpdateCommits(c) \/ HealthCommits(c)) =>
              LET old == Row(loaded[c][1].id)
                  new == Row(loaded[c][1].id)'
              IN IF old.status # new.status
                 THEN events' = Append(events,
                                    StatusChangeEvent(old.id, old.status, new.status))
                 ELSE events' = events]_vars

\* C15: every repository mutation commits its record change and its event in one
\* transaction: the step that commits a created record also commits its
\* service_registered event, and the step that commits a status written by update
\* or update_health_status also commits the status_change event, so that no state
\* holds the record change without the event.
C15_AtomicWithEvent ==
    [][\A c \in Contexts :
          /\ (pc[c] = "create" /\ pc'[c] = "create_refresh") =>
                \E s \in services' \ services :
                    events' = Append(events, RegisteredEvent(s.id))
          /\ ((UpdateCommits(c) \/ HealthCommits(c))
                /\ obj[c][1].status # loaded[c][1].status) =>
                events' = Append(events, StatusChangeEvent(
                              loaded[c][1].id, loaded[c][1].status, obj[c][1].status))]_vars

\* C16: whether or not the write of the service_registered event fails, create
\* returns the service it inserted (the registration answers 201 with it) and the
\* write leaves every committed record in place.
C16_EventFailureSwallowed ==
    [][\A c \in Contexts :
          (pc[c] = "create_event" /\ pc'[c] = "idle") =>
              /\ ret'.code = 201
              /\ ret'.body = obj[c]
              /\ services' = services]_vars

C18_DiscoverCaseNormalized ==
    ret.req.op = "discover" =>
        ret.body = find_by_name(lower(ret.req.service_name), <<ret.req.status>>, TRUE)

\* C19: list answers exactly the live services that satisfy every filter supplied:
\* the type, the status, and for a tag key=value that the route accepts, tag key
\* with exactly that value; the answer is ordered by name.
C19_ListFilters ==
    (ret.req.op = "list" /\ ret.code = 200) =>
        LET q == ret.req.query
            rows == {ret.body[i] : i \in 1..Len(ret.body)}
        IN /\ rows =
                {s \in services :
                    /\ q.type # <<>> => s.type = q.type[1]
                    /\ q.status # <<>> => s.status = q.status[1]
                    /\ q.tag # <<>> =>
                         /\ split(q.tag)[1] \in DOMAIN s.service_metadata.tags
                         /\ s.service_metadata.tags[split(q.tag)[1]] = split(q.tag)[2]}
           /\ Len(ret.body) = Cardinality(rows)
           /\ \A i, j \in 1..Len(ret.body) :
                 i < j => NameRank(ret.body[i].name) <= NameRank(ret.body[j].name)

\* C20: cleanup_stale_services(t), reading the clock at `now`, removes exactly the
\* services whose last_seen_at is earlier than now - t together with their events,
\* leaves every other service as it was, and returns the number of services removed.
C20_CleanupExact ==
    [][(ret'.req.op = "cleanup" /\ now' = now + 1) =>
          LET t == ret'.req.stale_after_seconds
              stale == {s \in services : s.last_seen_at < now' - t}
          IN /\ services' = services \ stale
             /\ ret'.code = 200
             /\ ret'.body = <<Cardinality(stale)>>
             /\ events' = SelectSeq(events,
                                    LAMBDA e : \A s \in stale : e.service_id # s.id)]_vars

\* a cleanup removed one service and kept another whose last_seen_at is the cutoff
C20_Witness ==
    /\ ret.req.op = "cleanup" /\ ret.body = <<1>>
    /\ \E s \in services : s.last_seen_at = now - ret.req.stale_after_seconds
    /\ Len(events) >= 1

\* C21: after create raised ConflictError, register looks the triple up again; when
\* the record is found the call updates it and answers 201 with the record, its
\* type, metadata and health_check_endpoint the ones supplied and its status
\* unknown; the call answers 409 only when that lookup finds no record.
C21_RaceRecovery ==
    [][\A c \in Contexts :
          /\ (pc[c] = "relookup" /\ pc'[c] # "relookup") =>
                IF RowsByCoordinates(req[c].registration) # {}
                THEN pc'[c] = "update_get" /\ via'[c] = "race"
                ELSE pc'[c] = "idle" /\ ret'.code = 409
          /\ (via[c] = "race" /\ pc[c] # "idle" /\ pc'[c] = "idle") =>
                /\ ret'.code = 201
                /\ Len(ret'.body) = 1
                /\ SameCoordinates(ret'.body[1], req[c].registration)
                /\ ret'.body[1].type = req[c].registration.type
                /\ ret'.body[1].service_metadata = req[c].registration.metadata
                /\ ret'.body[1].health_check_endpoint =
                      req[c].registration.health_check_endpoint
                /\ ret'.body[1].status = "unknown"]_vars

\* how far a register call has come: every step of the call raises it
RegisterRank(p) ==
    CASE p = "create" -> 1
      [] p = "create_refresh" -> 2
      [] p = "create_event" -> 3
      [] p = "relookup" -> 2
      [] p = "update_get" -> 3
      [] p = "update_commit" -> 4
      [] p = "update_refresh" -> 5
      [] OTHER -> 6

\* C22: under any interleaving with registers, deletes and cleanups of the same
\* triple, a register call moves forward only (lookup, at most one create, at most
\* one re-lookup, at most one update, no retry), and ends either with a Service
\* (201) or with a registration conflict (409).
C22_RegisterOutcomes ==
    [][\A c \in Contexts :
          (req[c].op = "register" /\ pc'[c] # pc[c]) =>
              /\ RegisterRank(pc'[c]) > RegisterRank(pc[c])
              /\ pc[c] = "relookup" => via[c] = "new"
              /\ pc'[c] = "idle" =>
                    /\ ret'.req = req[c]
                    /\ ret'.code \in {201, 409}
                    /\ ret'.code = 201 => Len(ret'.body) = 1]_vars

\* C23: while a service is live, no re-registration, health update or update changes
\* its id, name, host, port or registered_at.
C23_Frame ==
    [][\A s \in services : \A t \in services' :
          s.id = t.id =>
              /\ t.name = s.name /\ t.host = s.host /\ t.port = s.port
              /\ t.registered_at = s.registered_at]_vars

\* a service that has taken a health update and then an update
C23_Witness ==
    \E s \in services :
        /\ s.status = "stopping" /\ s.health_check_failures = 1
        /\ s.version = 3
        /\ s.registered_at < s.last_seen_at

\* C24: a record that create inserts, also for a triple whose earlier record was
\* removed by delete or by the stale cleanup, has an id that differs from every id
\* issued before, version 1, status unknown and health_check_failures 0.
C24_FreshIds ==
    [][\A s \in services' :
          (\A t \in services : t.id # s.id) =>
              /\ s.id \notin 1..issued
              /\ \A i \in 1..Len(events) : events[i].service_id # s.id
              /\ s.version = 1
              /\ s.status = "unknown"
              /\ s.health_check_failures = 0]_vars

\* the triple was registered again after its first record was removed, and the new
\* record's service_registered event is written
C24_Witness ==
    /\ \E s \in services : s.id = 2 /\ s.name = "svc-a"
    /\ \E i \in 1..Len(events) : events[i].service_id = 2
    /\ issued = 2

\* C25: a tick of the background task that fails is logged and leaves the loop
\* running: the failure is logged, the task goes to a sleep and the updater stays
\* started, and a task that sleeps after a tick runs a further tick unless stop()
\* has cancelled it.
C25_TickFailureSurvived ==
    /\ [][\A i \in LoopTasks :
            (tasks[i].at = "tick" /\ ~tasks[i].cancel /\ tasks'[i].at # "tick") =>
                /\ tasks'[i].at \in {"sleep", "error_sleep"}
                /\ tasks'[i].at = "error_sleep" =>
                      logged' = "Error updating background metrics"
                /\ logged' # "Updated active services metrics" =>
                      logged' \in {"Failed to update active services metrics",
                                  "Error updating background metrics"}
                /\ running' = running]_vars
    /\ \A i \in 1..MaxTasks :
          (i \in LoopTasks /\ tasks[i].at \in {"sleep", "error_sleep"})
              ~> (i \in LoopTasks /\ (tasks[i].at = "tick" \/ tasks[i].cancel))

\* the only loop task is in a tick after a tick of its own that raised
C25_Witness ==
    /\ Len(tasks) = 1
    /\ tasks[1].at = "tick"
    /\ running
    /\ logged = "Error updating background metrics"

\* C26: stop() ends the loop whatever await the loop task is suspended at: a stop()
\* call that awaits the task returns, and only once the task is done; from the
\* cancellation on the task starts and finishes no tick, and a task that is done
\* stays done; start() on a started updater creates no task, so at most one loop
\* task that stop() has not cancelled is alive.
C26_StopTerminates ==
    /\ [][/\ (stopping # 0 /\ stopping' = 0) => tasks[stopping].at \in Done
          /\ \A i \in LoopTasks :
                (tasks[i].cancel \/ tasks[i].at \in Done) =>
                    /\ tasks'[i].at \in {tasks[i].at} \cup Done
                    /\ tasks[i].at \in Done => tasks'[i] = tasks[i]
          /\ (stopping = 0 /\ stopping' # 0) =>
                /\ stopping' = task
                /\ ~running'
                /\ tasks[task].at \notin Done => tasks'[task].cancel
          /\ running => Len(tasks') = Len(tasks) /\ task' = task
          /\ Cardinality({i \in LoopTasks :
                            tasks[i].at \notin Done /\ ~tasks[i].cancel}) <= 1]_vars
    /\ (stopping # 0) ~> (stopping = 0)

\* stop() has returned after it cancelled the loop task in a tick or in the sleep
\* after a tick
C26_Witness ==
    /\ stopping = 0
    /\ ~running
    /\ logged = "Background metrics updater stopped"
    /\ Len(tasks) = 1
    /\ tasks[1] = [at |-> "returned", cancel |-> TRUE]

\* C27: in every state the status and the failure counter of every service agree:
\* health_check_failures is 0 when the status is unknown or healthy, 1 or 2 when it
\* is degraded, at least UnhealthyThreshold when it is unhealthy, and never negative.
C27_StatusMatchesFailures ==
    \A s \in services :
        /\ s.health_check_failures >= 0
        /\ s.status \in {"unknown", "healthy"} => s.health_check_failures = 0
        /\ s.status = "degraded" => s.health_check_failures \in 1..(UnhealthyThreshold - 1)
        /\ s.status = "unhealthy" => s.health_check_failures >= UnhealthyThreshold

\* the status_change events of the service id, in creation order
StatusChanges(id) ==
    SelectSeq(events, LAMBDA e : e.service_id = id /\ e.event_type = "status_change")

\* C28: for every service, its status_change events in creation order form a chain:
\* the first event's old_status is unknown, every later event's old_status is the
\* new_status of the event before it, and the last event's new_status is the
\* status of the service.
C28_EventChain ==
    \A s \in services :
        LET chain == StatusChanges(s.id) IN
        chain # <<>> =>
            /\ chain[1].old_status = "unknown"
            /\ \A k \in 2..Len(chain) : chain[k].old_status = chain[k - 1].new_status
            /\ chain[Len(chain)].new_status = s.status

\* C29: the stale cleanup removes only records whose committed last_seen_at is
\* older than the cutoff, and it removes no record on which a registration, a
\* re-registration or a health signal that stamped last_seen_at at the cutoff or
\* later has committed, the request of that write still being served.
C29_FreshNeverRemoved ==
    [][(ret'.req.op = "cleanup" /\ now' = now + 1) =>
          LET cutoff_time == now' - ret'.req.stale_after_seconds IN
          \A s \in services \ services' :
              /\ s.last_seen_at < cutoff_time
              /\ \A c \in Contexts :
                    (/\ pc[c] \in {"create_refresh", "create_event",
                                   "update_refresh", "health_refresh"}
                     /\ obj[c] # <<>>
                     /\ obj[c][1].id = s.id) =>
                        obj[c][1].last_seen_at < cutoff_time]_vars

\* C30: a delete request that found its service ends with 204 or with 404, also when
\* another delete of the same service runs at the same time: with 204 exactly when
\* its own commit removes the record, together with the record's events, and with
\* 404 when the record is gone by then.
C30_ConcurrentDeletes ==
    [][\A c \in Contexts :
          (req[c].op = "unregister" /\ pc[c] # "idle" /\ pc'[c] = "idle") =>
              LET id == req[c].id
                  removed == RowsById(id) # {} /\ (\A s \in services' : s.id # id)
              IN
              /\ ret'.code \in {204, 404}
              /\ ret'.code = 204 <=> removed
              /\ removed => \A i \in 1..Len(events') : events'[i].service_id # id]_vars

====
